---- MODULE Spec2Model ----
(***************************************************************************)
(* Optimal-interpolation engine of processor.py: processor() matches every *)
(* coarse cell to the fine cells of its window and optimal_interpolation() *)
(* blends them.  numpy arrays are sequences (1-based here, 0-based in the  *)
(* source); float64 values are exact extended rationals <<n, d>> with      *)
(* d > 0, or d = 0 for the non-finite values: <<0,0>> is nan, <<1,0>> is   *)
(* inf and <<-1,0>> is -inf.  Coordinates are integers counting half       *)
(* degrees, so that coordinate + ratio/2 stays an integer: lat + ratio.    *)
(***************************************************************************)
EXTENDS Integers, Sequences, FiniteSets, TLC

VARIABLES
    coarse, smooth, c_lat, c_lon, s_lat, s_lon,   \* processor's array arguments
    interpolation, mapping,                       \* processor's interpolation / mapping
    y_meas,                                       \* optimal_interpolation's y_meas (direct call)
    pc, error,                                    \* position in the code; the exception raised
    lat_ratio, lon_ratio,                         \* processor.py:102-103
    syne,                                         \* processor.py:108 (syn_prod in the callee)
    map_coarse, map_smooth,                       \* processor.py:112,115
    i,                                            \* loop variable of processor.py:129
    indices, selected,                            \* processor.py:132,139 (back_sel in the callee)
    oi,                                           \* locals of the last optimal_interpolation call
    writes,                                       \* per output cell, the number of += done on it
    results                                       \* what processor returned

vars == <<coarse, smooth, c_lat, c_lon, s_lat, s_lon, interpolation, mapping,
          y_meas, pc, error, lat_ratio, lon_ratio, syne, map_coarse, map_smooth,
          i, indices, selected, oi, writes, results>>

----------------------------------------------------------------------------
\* Bounds of the model.
MaxCoarseDim == 2
MaxFineDim == 3
MaxN == 2

LatOrigins == {1, 2, 3, 6}
LonOrigins == {1, 2}
Interpolations == {"Optimal Interpolation", "Kriging"}
Mappings == {"mean", "median"}
\* values of y_meas and of the background cells, and the error ratios that
\* random.uniform(0, 0.5) may return
YVals == {<<0, 1>>, <<2, 1>>, <<-2, 1>>}
XbVals == {<<0, 1>>, <<3, 1>>}
ErrVals == {<<0, 1>>, <<1, 4>>, <<1, 2>>}
\* shape of syn_prod in a direct call of optimal_interpolation
OIShape == <<2, 2>>

----------------------------------------------------------------------------
\* float64 arithmetic, exact
Abs(x) == IF x < 0 THEN -x ELSE x
Sign(x) == IF x < 0 THEN -1 ELSE IF x > 0 THEN 1 ELSE 0

RECURSIVE Gcd(_, _)
Gcd(a, b) == IF b = 0 THEN a ELSE Gcd(b, a % b)

Norm(n, d) ==
    IF d = 0 THEN <<Sign(n), 0>>
    ELSE LET g == Gcd(Abs(n), Abs(d))
             s == Sign(d)
         IN <<(s * n) \div g, (s * d) \div g>>

NaN == <<0, 0>>
Zero == <<0, 1>>
FromInt(k) == <<k, 1>>
IsFinite(a) == a[2] # 0

FAdd(a, b) ==
    IF a[2] = 0 /\ b[2] = 0
    THEN (IF a = b THEN a ELSE NaN)
    ELSE Norm(a[1] * b[2] + b[1] * a[2], a[2] * b[2])

FNeg(a) == <<-a[1], a[2]>>
FSub(a, b) == FAdd(a, FNeg(b))
FMul(a, b) == Norm(a[1] * b[1], a[2] * b[2])

\* numpy true division: x/0 is +-inf, 0/0 is nan, and nothing is raised
FDiv(a, b) ==
    LET s == IF b[1] < 0 THEN -1 ELSE 1
    IN Norm(s * a[1] * b[2], s * a[2] * b[1])

\* sum(): a left fold from 0
RECURSIVE FSumFrom(_, _)
FSumFrom(acc, s) == IF s = <<>> THEN acc ELSE FSumFrom(FAdd(acc, Head(s)), Tail(s))
FSum(s) == FSumFrom(Zero, s)

\* an array as the tuple of its elements, each evaluated once
Array(f) == f \o <<>>

\* np.zeros(shape)
OnesGrid(r, c) == [m \in 1..r |-> [n \in 1..c |-> FromInt(1)]]
ZerosGrid(r, c) == [m \in 1..r |-> [n \in 1..c |-> Zero]]

----------------------------------------------------------------------------
\* optimal_interpolation

\* xb = np.array([itm[2] for itm in back_sel]): itm[2] of the source is itm[3] here
Xb(back_sel) == Array([k \in 1..Len(back_sel) |-> back_sel[k][3]])

\* R = (0.5 * y_meas) ** 2
RMatrix(y) == FMul(FMul(<<1, 2>>, y), FMul(<<1, 2>>, y))

supported_functions == {"mean"}

\* H = sum(xb) / len(xb)
H(xb) == FDiv(FSum(xb), FromInt(Len(xb)))

\* Hdot = np.ones((1, len(xb))) * 1 / len(xb)
Hdot(xb) ==
    Array([k \in 1..Len(xb) |-> FDiv(FMul(FromInt(1), FromInt(1)), FromInt(Len(xb)))])

\* eb = np.multiply(xb, err)
EbNoErr(xb, err) == xb
Eb(xb, err) == Array([k \in 1..Len(xb) |-> FMul(xb[k], err[k])])

\* Pb = np.outer(eb, eb.transpose())
Pb(eb) == Array([j \in 1..Len(eb) |-> Array([k \in 1..Len(eb) |-> FMul(eb[j], eb[k])])])

\* Num = np.dot(Pb, np.transpose(Hdot))
Num(pb, hdot) ==
    Array([j \in 1..Len(pb) |-> FSum(Array([k \in 1..Len(hdot) |-> FMul(pb[j][k], hdot[k])]))])

\* Den = np.dot(Hdot, Num) + R
Den(hdot, num, R) ==
    FAdd(FSum(Array([j \in 1..Len(num) |-> FMul(hdot[j], num[j])])), R)

\* K = Num / Den
K(num, den) == Array([j \in 1..Len(num) |-> FDiv(num[j], den)])

\* xa = xb + (K * (y_meas - H))
Xa(xb, k, y, h) ==
    Array([j \in 1..Len(xb) |-> FAdd(xb[j], FMul(k[j], FSub(y, h)))])

\* syn_prod[m][n] += xa[item]
AccumulateReplace(old, x) == x
Accumulate(old, x) == FAdd(old, x)

\* whether syn_prod[m][n] is inside the array (m, n are the 0-based indices)
InGrid(g, m, n) == m >= 0 /\ m < Len(g) /\ n >= 0 /\ n < Len(g[1])

\* the loop of lines 68-71 from item on: the grid and the counts of += it leaves,
\* and whether an index was out of the array (the writes before it stay)
RECURSIVE LoadResults(_, _, _, _, _)
LoadResults(g, w, back_sel, xa, item) ==
    IF item > Len(back_sel) THEN [grid |-> g, writes |-> w, ok |-> TRUE]
    ELSE LET m == back_sel[item][1]
             n == back_sel[item][2]
         IN IF ~InGrid(g, m, n) THEN [grid |-> g, writes |-> w, ok |-> FALSE]
            ELSE LoadResults([g EXCEPT ![m + 1][n + 1] = Accumulate(@, xa[item])],
                             [w EXCEPT ![m + 1][n + 1] = @ + 1],
                             back_sel, xa, item + 1)

NoCall == [status |-> "none", exc |-> "", line |-> 0, xb |-> <<>>, err |-> <<>>,
           Pb |-> <<>>, Den |-> Zero, K |-> <<>>, xa |-> <<>>, pre |-> <<>>]

Raised(exc, line, pre) == [NoCall EXCEPT !.status = "raised", !.exc = exc,
                                         !.line = line, !.pre = pre]

\* One call.  err is what the random.uniform draws of line 45 return; floatItems
\* says that the items of back_sel are float64 arrays (processor's call), whose
\* elements are no valid array indices, and not lists with integer m, n.
\* The result: the locals (call), syn_prod (grid) and the counts of += (writes).
OptimalInterpolation(syn_prod, w, y, back_sel, map_func, err, floatItems) ==
    IF \E k \in 1..Len(back_sel) : Len(back_sel[k]) < 3
    THEN [call |-> Raised("IndexError", 23, syn_prod), grid |-> syn_prod, writes |-> w]
    ELSE IF map_func \notin supported_functions
    THEN [call |-> Raised("NotImplementedError", 35, syn_prod), grid |-> syn_prod, writes |-> w]
    ELSE IF Len(back_sel) = 0
    THEN [call |-> Raised("ZeroDivisionError", 39, syn_prod), grid |-> syn_prod, writes |-> w]
    ELSE LET xb == Xb(back_sel)
             R == RMatrix(y)
             h == H(xb)
             hdot == Hdot(xb)
             eb == Eb(xb, err)
             pb == Pb(eb)
             num == Num(pb, hdot)
             den == Den(hdot, num, R)
             k == K(num, den)
             xa == Xa(xb, k, y, h)
             locals == [NoCall EXCEPT !.xb = xb, !.err = err, !.Pb = pb, !.Den = den,
                                      !.K = k, !.xa = xa, !.pre = syn_prod]
             loaded == IF floatItems
                       THEN [grid |-> syn_prod, writes |-> w, ok |-> FALSE]
                       ELSE LoadResults(syn_prod, w, back_sel, xa, 1)
         IN [call |-> IF loaded.ok
                      THEN [locals EXCEPT !.status = "returned"]
                      ELSE [locals EXCEPT !.status = "raised", !.exc = "IndexError", !.line = 71],
             grid |-> loaded.grid, writes |-> loaded.writes]

\* the vectors of n error ratios
ErrVectors(n) == [1..n -> ErrVals]

----------------------------------------------------------------------------
\* numpy arrays and broadcasting

Max(a, b) == IF a >= b THEN a ELSE b
Shape(a) == <<Len(a), Len(a[1])>>
Size(a) == Len(a) * Len(a[1])

\* whether two 2-D shapes broadcast (else the operation raises ValueError)
BroadcastOK(sa, sb) == \A d \in 1..2 : sa[d] = sb[d] \/ sa[d] = 1 \/ sb[d] = 1
BShape(sa, sb) == <<Max(sa[1], sb[1]), Max(sa[2], sb[2])>>
\* the index read along an axis of extent len for index k of the broadcast result
BIdx(len, k) == IF len = 1 THEN 1 ELSE k

\* np.round(n / d) for d # 0: to the nearest integer, a tie to the even one
RoundHalfEven(n, d) ==
    LET dd == Abs(d)
        nn == Sign(d) * n
        q == nn \div dd
        r == nn - q * dd
    IN IF 2 * r < dd THEN q
       ELSE IF 2 * r > dd THEN q + 1
       ELSE IF q % 2 = 0 THEN q ELSE q + 1

\* np.int32(np.round(fine / coarse_)), elementwise over the broadcast shape
Ratio(fine, coarse_) ==
    LET sf == Shape(fine)
        sc == Shape(coarse_)
        b == BShape(sf, sc)
    IN [p \in 1..b[1] |-> [q \in 1..b[2] |->
           RoundHalfEven(fine[BIdx(sf[1], p)][BIdx(sf[2], q)],
                         coarse_[BIdx(sc[1], p)][BIdx(sc[2], q)])]]

\* np.ndindex(shape): the index pairs, the last index running fastest
RECURSIVE NdIndexFrom(_, _, _)
NdIndexFrom(a, r, c) ==
    IF a > r THEN <<>> ELSE [b \in 1..c |-> <<a, b>>] \o NdIndexFrom(a + 1, r, c)
RECURSIVE NdIndexColumnsFrom(_, _, _)
NdIndexColumnsFrom(b, r, c) ==
    IF b > c THEN <<>> ELSE [a \in 1..r |-> <<a, b>>] \o NdIndexColumnsFrom(b + 1, r, c)
NdIndexColumnMajor(shape) == NdIndexColumnsFrom(1, shape[1], shape[2])
NdIndex(shape) == NdIndexFrom(1, shape[1], shape[2])

\* np.array([[lat[a, b], lon[a, b], val[a, b]] for a, b in np.ndindex(val.shape)])
MapArray(lat, lon, val) ==
    LET idx == NdIndex(Shape(val))
    IN [k \in 1..Len(idx) |->
           <<lat[idx[k][1]][idx[k][2]], lon[idx[k][1]][idx[k][2]], val[idx[k][1]][idx[k][2]]>>]

\* whether map_smooth[:, 0] (shape (n,)) broadcasts against lat_ratio
CondBroadcastOK(n, ratio) == n = Len(ratio[1]) \/ n = 1 \/ Len(ratio[1]) = 1

\* the boolean array of lines 133-136 for row i of map_coarse; ratio / 2 degrees
\* is ratio half degrees
Cond(ms, mc, row, lr, ln) ==
    LET n == Len(ms)
        bc == Len(lr[1])
    IN [p \in 1..Len(lr) |-> [q \in 1..Max(n, bc) |->
           /\ ms[BIdx(n, q)][1] <= mc[row][1] + lr[p][BIdx(bc, q)]
           /\ ms[BIdx(n, q)][1] >= mc[row][1] - lr[p][BIdx(bc, q)]
           /\ ms[BIdx(n, q)][2] <= mc[row][2] + ln[p][BIdx(bc, q)]
           /\ ms[BIdx(n, q)][2] >= mc[row][2] - ln[p][BIdx(bc, q)]]]

\* np.where(cond) of a 2-D array: the row indices and the column indices
\* (0-based) of its true elements
Where(cond) ==
    LET hit(ix) == cond[ix[1]][ix[2]]
        at == SelectSeq(NdIndex(Shape(cond)), hit)
    IN <<[k \in 1..Len(at) |-> at[k][1] - 1], [k \in 1..Len(at) |-> at[k][2] - 1]>>

\* whether map_smooth[index, 2] stays inside map_smooth for every index array
IndicesInBounds(ind, ms) ==
    \A t \in 1..Len(ind) : \A k \in 1..Len(ind[t]) : ind[t][k] < Len(ms)

\* selected = [map_smooth[index, 2] for index in indices]: one array per index array
Selected(ind, ms) ==
    [t \in 1..Len(ind) |-> [k \in 1..Len(ind[t]) |-> ms[ind[t][k] + 1][3]]]

\* len(selected) == (lat_ratio * lon_ratio): an array of booleans
SizeEqual(sel, lr, ln) ==
    [p \in 1..Len(lr) |-> [q \in 1..Len(lr[1]) |-> Len(sel) = lr[p][q] * ln[p][q]]]

----------------------------------------------------------------------------
\* the grids a run is given: axis-aligned, uniformly spaced

Axis(origin, step, k) == origin + (k - 1) * step
LatGrid(r, c, origin, step) == [a \in 1..r |-> [b \in 1..c |-> Axis(origin, step, a)]]
LonGrid(r, c, origin, step) == [a \in 1..r |-> [b \in 1..c |-> Axis(origin, step, b)]]
ValueGrid(r, c) == [a \in 1..r |-> [b \in 1..c |-> FromInt(10 * a + b)]]

NoError == [type |-> "", line |-> 0]
NoResults == [returned |-> FALSE, grid |-> <<>>]

Init ==
    /\ \E cr \in 1..MaxCoarseDim, cc \in 1..MaxCoarseDim, clat \in LatOrigins, clon \in LonOrigins :
          /\ coarse = ValueGrid(cr, cc)
          /\ c_lat = LatGrid(cr, cc, clat, 2)
          /\ c_lon = LonGrid(cr, cc, clon, 2)
    /\ \E sr \in 1..MaxFineDim, sc \in 1..MaxFineDim, slat \in LatOrigins, slon \in LonOrigins :
          /\ smooth = ValueGrid(sr, sc)
          /\ s_lat = LatGrid(sr, sc, slat, 1)
          /\ s_lon = LonGrid(sr, sc, slon, 1)
    /\ interpolation \in Interpolations
    /\ mapping \in Mappings
    /\ y_meas = Zero
    /\ pc = "ratio"
    /\ error = NoError
    /\ lat_ratio = <<>>
    /\ lon_ratio = <<>>
    /\ syne = <<>>
    /\ map_coarse = <<>>
    /\ map_smooth = <<>>
    /\ i = 0
    /\ indices = <<>>
    /\ selected = <<>>
    /\ oi = NoCall
    /\ writes = <<>>
    /\ results = NoResults

inputs == <<coarse, smooth, c_lat, c_lon, s_lat, s_lon, interpolation, mapping, y_meas>>

Raise(type, line) ==
    /\ pc' = "error"
    /\ error' = [type |-> type, line |-> line]

\* processor.py:102-108
ComputeRatio ==
    /\ pc = "ratio"
    /\ IF BroadcastOK(Shape(s_lat), Shape(c_lat))
       THEN /\ lat_ratio' = Ratio(s_lat, c_lat)
            /\ lon_ratio' = Ratio(s_lon, c_lon)
            /\ syne' = ZerosGrid(Len(smooth), Len(smooth[1]))
            /\ writes' = [m \in 1..Len(smooth) |-> [n \in 1..Len(smooth[1]) |-> 0]]
            /\ pc' = "flatten"
            /\ UNCHANGED error
       ELSE /\ Raise("ValueError", 102)
            /\ UNCHANGED <<lat_ratio, lon_ratio, syne, writes>>
    /\ UNCHANGED <<inputs, map_coarse, map_smooth, i, indices, selected, oi, results>>

\* processor.py:110-127; the length checks of lines 117-127 only print
Flatten ==
    /\ pc = "flatten"
    /\ map_coarse' = MapArray(c_lat, c_lon, coarse)
    /\ map_smooth' = MapArray(s_lat, s_lon, smooth)
    /\ i' = 0
    /\ pc' = "match"
    /\ UNCHANGED <<inputs, error, lat_ratio, lon_ratio, syne, indices, selected, oi,
                   writes, results>>

\* processor.py:129-139, for row i of map_coarse (i + 1 here)
Match ==
    /\ pc = "match"
    /\ i < Len(map_coarse)
    /\ IF ~CondBroadcastOK(Len(map_smooth), lat_ratio)
       THEN /\ Raise("ValueError", 133)
            /\ UNCHANGED <<indices, selected>>
       ELSE LET ind == Where(Cond(map_smooth, map_coarse, i + 1, lat_ratio, lon_ratio))
            IN /\ indices' = ind
               /\ IF IndicesInBounds(ind, map_smooth)
                  THEN /\ selected' = Selected(ind, map_smooth)
                       /\ pc' = "check"
                       /\ UNCHANGED error
                  ELSE /\ Raise("IndexError", 139)
                       /\ UNCHANGED selected
    /\ UNCHANGED <<inputs, lat_ratio, lon_ratio, syne, map_coarse, map_smooth, i, oi,
                   writes, results>>

\* processor.py:141-142: the truth value of an array of more than one element
\* is a ValueError
SizeCheck ==
    /\ pc = "check"
    /\ IF Size(lat_ratio) > 1 THEN Raise("ValueError", 141)
       ELSE IF ~SizeEqual(selected, lat_ratio, lon_ratio)[1][1] THEN Raise("AssertionError", 141)
       ELSE pc' = "interpolate" /\ UNCHANGED error
    /\ UNCHANGED <<inputs, lat_ratio, lon_ratio, syne, map_coarse, map_smooth, i, indices,
                   selected, oi, writes, results>>

\* processor.py:144-145 and the step of the loop
Interpolate ==
    /\ pc = "interpolate"
    /\ IF interpolation = "Optimal Interpolation"
       THEN \E err \in ErrVectors(Len(selected)) :
               LET r == OptimalInterpolation(syne, writes, map_coarse[i + 1][3], selected,
                                             mapping, err, TRUE)
               IN /\ oi' = r.call
                  /\ syne' = r.grid
                  /\ writes' = r.writes
                  /\ IF r.call.status = "returned"
                     THEN /\ i' = i + 1
                          /\ pc' = "match"
                          /\ UNCHANGED error
                     ELSE /\ Raise(r.call.exc, r.call.line)
                          /\ UNCHANGED i
       ELSE /\ i' = i + 1
            /\ pc' = "match"
            /\ UNCHANGED <<error, oi, syne, writes>>
    /\ UNCHANGED <<inputs, lat_ratio, lon_ratio, map_coarse, map_smooth, indices, selected,
                   results>>

\* processor.py:147-156
Return ==
    /\ pc = "match"
    /\ i = Len(map_coarse)
    /\ results' = [returned |-> TRUE, grid |-> syne]
    /\ pc' = "done"
    /\ UNCHANGED <<inputs, error, lat_ratio, lon_ratio, syne, map_coarse, map_smooth, i,
                   indices, selected, oi, writes>>

Next == ComputeRatio \/ Flatten \/ Match \/ SizeCheck \/ Interpolate \/ Return

Spec == Init /\ [][Next]_vars

----------------------------------------------------------------------------
\* optimal_interpolation called on its own: syn_prod holds earlier results or
\* zeros, back_sel lists n distinct cells as [m, n, value]

Items == {<<m, n, v>> : m \in 0..(OIShape[1] - 1), n \in 0..(OIShape[2] - 1), v \in XbVals}
BackSels ==
    UNION {{s \in [1..n -> Items] :
               \A j, k \in 1..n : j # k => <<s[j][1], s[j][2]>> # <<s[k][1], s[k][2]>>}
           : n \in 0..MaxN}
StartGrids == {[m \in 1..OIShape[1] |-> [n \in 1..OIShape[2] |-> v]] : v \in {Zero, FromInt(1)}}

InitOI ==
    /\ coarse = <<>> /\ smooth = <<>>
    /\ c_lat = <<>> /\ c_lon = <<>> /\ s_lat = <<>> /\ s_lon = <<>>
    /\ interpolation = "Optimal Interpolation"
    /\ mapping \in Mappings
    /\ y_meas \in YVals
    /\ pc = "call"
    /\ error = NoError
    /\ lat_ratio = <<>>
    /\ lon_ratio = <<>>
    /\ syne \in StartGrids
    /\ map_coarse = <<>>
    /\ map_smooth = <<>>
    /\ i = 0
    /\ indices = <<>>
    /\ selected \in BackSels
    /\ oi = NoCall
    /\ writes = [m \in 1..OIShape[1] |-> [n \in 1..OIShape[2] |-> 0]]
    /\ results = NoResults

\* processor.py:8-73, one call
DirectCall ==
    /\ pc = "call"
    /\ \E err \in ErrVectors(Len(selected)) :
          LET r == OptimalInterpolation(syne, writes, y_meas, selected, mapping, err, FALSE)
          IN /\ oi' = r.call
             /\ syne' = r.grid
             /\ writes' = r.writes
             /\ IF r.call.status = "returned"
                THEN pc' = "returned" /\ UNCHANGED error
                ELSE Raise(r.call.exc, r.call.line)
    /\ UNCHANGED <<inputs, lat_ratio, lon_ratio, map_coarse, map_smooth, i, indices,
                   selected, results>>

NextOI == DirectCall

SpecOI == InitOI /\ [][NextOI]_vars

----------------------------------------------------------------------------
\* what the properties below speak of

\* the ratio arrays hold one value each: the run has a single pair (a, b)
UniformRatio ==
    /\ lat_ratio # <<>>
    /\ \A p \in 1..Len(lat_ratio), q \in 1..Len(lat_ratio[1]) :
          lat_ratio[p][q] = lat_ratio[1][1] /\ lon_ratio[p][q] = lon_ratio[1][1]

\* the fine records inside the closed window of row `row` of map_coarse for the
\* pair (a, b): lat within coarse.lat +/- a/2 and lon within coarse.lon +/- b/2
InWindow(row, a, b) ==
    {q \in 1..Len(map_smooth) :
        /\ map_smooth[q][1] <= map_coarse[row][1] + a
        /\ map_smooth[q][1] >= map_coarse[row][1] - a
        /\ map_smooth[q][2] <= map_coarse[row][2] + b
        /\ map_smooth[q][2] >= map_coarse[row][2] - b}

\* the fine records that np.where reports for row `row` of map_coarse
FineSelected(row) ==
    LET cond == Cond(map_smooth, map_coarse, row, lat_ratio, lon_ratio)
    IN {BIdx(Len(map_smooth), q) : q \in {x \in 1..Len(cond[1]) :
                                             \E p \in 1..Len(cond) : cond[p][x]}}

Flattened == pc \in {"match", "check", "interpolate", "done"} \/ (pc = "error" /\ error.line > 127)

\* ms lists the cells of val in row-major order, each once
RowMajor(ms, lat, lon, val) ==
    LET r == Len(val)
        c == Len(val[1])
    IN /\ Len(ms) = r * c
       /\ \A k \in 0..(r * c - 1) :
             ms[k + 1] = <<lat[(k \div c) + 1][(k % c) + 1], lon[(k \div c) + 1][(k % c) + 1],
                           val[(k \div c) + 1][(k % c) + 1]>>
       /\ \A a \in 1..r, b \in 1..c :
             Cardinality({k \in 1..Len(ms) : ms[k] = <<lat[a][b], lon[a][b], val[a][b]>>}) = 1

AllZero(v) == \A k \in 1..Len(v) : v[k] = Zero

----------------------------------------------------------------------------
\* C1: for every coarse cell, the size check passes exactly when the number of
\* fine records inside the cell's closed window equals lat_ratio * lon_ratio,
\* and a different number aborts the run with the assertion error of line 141.
C1_SizeCheckByWindowCount ==
    UniformRatio =>
        LET a == lat_ratio[1][1]
            b == lon_ratio[1][1]
        IN /\ pc = "interpolate" => Cardinality(InWindow(i + 1, a, b)) = a * b
           /\ (pc = "error" /\ error.line = 141) =>
                  /\ error.type = "AssertionError"
                  /\ Cardinality(InWindow(i + 1, a, b)) # a * b

\* C2: with a uniformly spaced fine grid and the ratio (a, b), the closed window
\* of every coarse cell holds exactly a * b fine records.
C2_WindowHoldsRatioProduct ==
    (pc = "check" /\ UniformRatio) =>
        Cardinality(InWindow(i + 1, lat_ratio[1][1], lon_ratio[1][1]))
            = lat_ratio[1][1] * lon_ratio[1][1]

\* C3: with a mapping name outside the supported set the run fails before any
\* grid processing: no coarse cell is ever matched, no output cell is ever
\* written, and the run does not complete.
C3_UnsupportedMappingFailsFirst ==
    mapping \notin supported_functions =>
        /\ indices = <<>>
        /\ pc \notin {"check", "interpolate", "done"}
        /\ \A m \in 1..Len(writes) : \A n \in 1..Len(writes[m]) : writes[m][n] = 0

\* C4: a zero gain denominator is a fatal error: the call never returns after
\* dividing by it, and no non-finite value reaches an output cell.
C4_ZeroDenominatorIsFatal ==
    oi.status = "returned" =>
        /\ oi.Den # Zero
        /\ \A m \in 1..Len(syne), n \in 1..Len(syne[1]) : IsFinite(syne[m][n])

C6_UnknownMethodFails ==
    interpolation # "Optimal Interpolation" => (pc # "done" /\ ~results.returned)

\* C7: the resolution ratio is one pair of integers >= 1, the same for the
\* whole run.
C7_RatioIsPositivePair ==
    lat_ratio # <<>> =>
        /\ UniformRatio
        /\ lat_ratio[1][1] >= 1
        /\ lon_ratio[1][1] >= 1

\* C8: the flattened sequences have r * c records, hold the record of every
\* cell exactly once, and list the cells in row-major order.
C8_FlattenRowMajor ==
    Flattened =>
        /\ RowMajor(map_smooth, s_lat, s_lon, smooth)
        /\ RowMajor(map_coarse, c_lat, c_lon, coarse)

C8_Witness ==
    /\ pc = "match"
    /\ Len(smooth) >= 2 /\ Len(smooth[1]) >= 2
    /\ Len(map_smooth) = Len(smooth) * Len(smooth[1])

====
